---- MODULE Spec2Model ----
(***************************************************************************)
(* Model of the Erlang B trunk-sizing library (src/src/lib.rs):           *)
(*   erlang_b, calculate_e1_channels, required_e1_channels.                *)
(*                                                                         *)
(* f64 values are modelled by exact extended non-negative rationals        *)
(* <<num, den>>: den = 0 with num > 0 is +infinity, <<0, 0>> is NaN.       *)
(* Numerators and denominators are arbitrary-precision naturals            *)
(* (little-endian limb sequences) so that no intermediate value of the     *)
(* recurrence is truncated.  Rounding of f64 is not modelled; negative     *)
(* values do not occur (traffic and targets range over values >= 0, +inf   *)
(* and NaN).                                                               *)
(***************************************************************************)
EXTENDS Integers, Sequences, FiniteSets, TLC

(***************************************************************************)
(* Arbitrary-precision naturals: little-endian limbs, no leading zero limb *)
(* (so equal numbers are equal sequences); zero is the empty sequence.     *)
(* The arithmetic is written as functions, so that an argument is a value  *)
(* computed once before the body is evaluated.                             *)
(***************************************************************************)
Base == 10 ^ 4

Big == Seq(Nat)

BigZero == <<>>

BigOf[n \in Nat] ==
    IF n = 0 THEN <<>> ELSE <<n % Base>> \o BigOf[n \div Base]

BigAddC[x \in Big, y \in Big, c \in Nat] ==
    IF x = <<>> /\ y = <<>>
    THEN (IF c = 0 THEN <<>> ELSE <<c>>)
    ELSE LET a == IF x = <<>> THEN 0 ELSE Head(x)
             b == IF y = <<>> THEN 0 ELSE Head(y)
             s == a + b + c
         IN  <<s % Base>> \o BigAddC[IF x = <<>> THEN <<>> ELSE Tail(x),
                                     IF y = <<>> THEN <<>> ELSE Tail(y),
                                     s \div Base]

BigAdd[x \in Big, y \in Big] == BigAddC[x, y, 0]

BigMulLimb[x \in Big, k \in Nat, c \in Nat] ==
    IF x = <<>>
    THEN (IF c = 0 THEN <<>> ELSE <<c>>)
    ELSE LET s == Head(x) * k + c
         IN  <<s % Base>> \o BigMulLimb[Tail(x), k, s \div Base]

BigShift[x \in Big] == IF x = <<>> THEN <<>> ELSE <<0>> \o x

BigMul[x \in Big, y \in Big] ==
    IF x = <<>> \/ y = <<>>
    THEN <<>>
    ELSE BigAdd[IF Head(y) = 0 THEN <<>> ELSE BigMulLimb[x, Head(y), 0],
                BigShift[BigMul[x, Tail(y)]]]

BigLeqFrom[x \in Big, y \in Big, i \in Nat] ==
    IF i = 0 THEN TRUE
    ELSE IF x[i] # y[i] THEN x[i] < y[i]
    ELSE BigLeqFrom[x, y, i - 1]

BigLeq[x \in Big, y \in Big] ==
    IF Len(x) # Len(y) THEN Len(x) < Len(y) ELSE BigLeqFrom[x, y, Len(x)]

(***************************************************************************)
(* f64 arithmetic on the values the library meets (non-negative, with      *)
(* +infinity and NaN), exact on finite values.                             *)
(***************************************************************************)
Float == Big \X Big

Rat(n, d) == <<BigOf[n], BigOf[d]>>

IsNaN(x) == x[1] = BigZero /\ x[2] = BigZero

IsInf(x) == x[1] # BigZero /\ x[2] = BigZero

Infinity == <<BigOf[1], BigZero>>

NaN == <<BigZero, BigZero>>

\* a + b
RatAdd[x \in Float, y \in Float] ==
    IF IsNaN(x) \/ IsNaN(y) THEN NaN
    ELSE IF IsInf(x) \/ IsInf(y) THEN Infinity
    ELSE <<BigAdd[BigMul[x[1], y[2]], BigMul[y[1], x[2]]], BigMul[x[2], y[2]]>>

\* a * b  (0 * inf = NaN)
RatMul[x \in Float, y \in Float] == <<BigMul[x[1], y[1]], BigMul[x[2], y[2]]>>

\* a / b  (x / 0 = inf for x > 0, 0 / 0 = NaN, x / inf = 0, inf / inf = NaN)
RatDiv[x \in Float, y \in Float] == <<BigMul[x[1], y[2]], BigMul[x[2], y[1]]>>

\* a <= b  (false when either side is NaN)
RatLeq[x \in Float, y \in Float] ==
    /\ ~IsNaN(x)
    /\ ~IsNaN(y)
    /\ IF IsInf(x) THEN IsInf(y)
       ELSE IF IsInf(y) THEN TRUE
       ELSE BigLeq[BigMul[x[1], y[2]], BigMul[y[1], x[2]]]

\* a == b
RatEq(x, y) == RatLeq[x, y] /\ RatLeq[y, x]

\* a < b
RatLt(x, y) == RatLeq[x, y] /\ ~RatLeq[y, x]

One == Rat(1, 1)

(***************************************************************************)
(* The library's functions.                                                *)
(***************************************************************************)

\* Faulty variants of the definitions below, used to show that the
\* properties depend on them.
\* - the "1.0 +" of the recurrence dropped
InverseStep_NoOne(inverse_b, n, t) ==
    RatMul[inverse_b, RatDiv[Rat(n, 1), t]]

\* - the ratio inverted: traffic / n
InverseStep_Inverted(inverse_b, n, t) ==
    RatAdd[One, RatMul[inverse_b, RatDiv[t, Rat(n, 1)]]]

\* - the loop index one behind: for n in 0..channels
InverseStep_IndexBehind(inverse_b, n, t) ==
    RatAdd[One, RatMul[inverse_b, RatDiv[Rat(n - 1, 1), t]]]

\* lib.rs:16   inverse_b = 1.0 + inverse_b * (n as f64 / traffic)
InverseStep(inverse_b, n, t) ==
    RatAdd[One, RatMul[inverse_b, RatDiv[Rat(n, 1), t]]]

\* lib.rs:13-17   inverse_b after the iterations n = 1..=k of the for loop
RECURSIVE InverseB(_, _)
InverseB(t, k) ==
    IF k = 0 THEN One ELSE InverseStep(InverseB(t, k - 1), k, t)

\* lib.rs:12-20   erlang_b(traffic, channels) = 1.0 / inverse_b
erlang_b(t, n) == RatDiv[One, InverseB(t, n)]

None == <<>>

Some(n) == <<n>>

\* - the bound included: while channels <= channels_max
LoopCond_Inclusive(c, max) == c <= max

\* lib.rs:40   while channels < channels_max
LoopCond(c, max) == c < max

\* - a strict test: blocking < blocking_probability
Meets_Strict(b, p) == RatLt(b, p)

\* - the test reversed: blocking >= blocking_probability
Meets_Reversed(b, p) == RatLeq[p, b]

\* lib.rs:42   if blocking <= blocking_probability
Meets(b, p) == RatLeq[b, p]

\* - the increment forgotten
NextCandidate_Stuck(c) == c

\* lib.rs:45   channels += 1
NextCandidate(c) == c + 1

\* lib.rs:40-48   the while loop, entered with the candidate c
RECURSIVE ScanFrom(_, _, _, _)
ScanFrom(t, p, max, c) ==
    IF LoopCond(c, max)
    THEN IF Meets(erlang_b(t, c), p)
         THEN Some(c)
         ELSE ScanFrom(t, p, max, NextCandidate(c))
    ELSE None

\* lib.rs:33-49
calculate_e1_channels(t, p, max) == ScanFrom(t, p, max, 1)

\* lib.rs:72   the fixed search bound of required_e1_channels
DefaultChannelsMax == 10000

\* - the division by 60 forgotten
Traffic_NoHourConversion(u, d, c) ==
    RatMul[RatMul[Rat(u, 1), d], Rat(c, 1)]

\* lib.rs:71   (users as f64 * average_call_duration * concurrent_calls as f64) / 60.0
Traffic(u, d, c) ==
    RatDiv[RatMul[RatMul[Rat(u, 1), d], Rat(c, 1)], Rat(60, 1)]

(***************************************************************************)
(* Inputs explored.                                                        *)
(***************************************************************************)
MaxTraffic == 3

MaxChannels == 5

\* offered traffic: 0, 1/2, 1, 3/2, 2, 3, ..., and the non-finite values
Traffics == {Rat(a, b) : a \in 0..MaxTraffic, b \in 1..2} \cup {Infinity, NaN}

\* blocking targets: unreachable (0), strict, met with equality, certain (1),
\* above 1, and the non-finite values
Probabilities ==
    {Rat(0, 1), Rat(1, 20), Rat(1, 5), Rat(1, 2), Rat(1, 1), Rat(3, 2)}
       \cup {Infinity, NaN}

ChannelBounds == 0..MaxChannels

\* inputs of required_e1_channels.  The targets are positive: with a zero
\* target and positive traffic the scan visits all DefaultChannelsMax - 1
\* candidates.
UserCounts == {0, 1, 100}

Durations == {Rat(1, 2), Rat(3, 1)}

ConcurrentCalls == {1, 10}

RequiredProbabilities == {Rat(1, 20), Rat(1, 2), Rat(1, 1)}

(***************************************************************************)
(* State: one call of one of the three functions.                          *)
(*   pc      "idle" before the call, "scan" inside the while loop of       *)
(*           calculate_e1_channels, "done" after the return                *)
(*   fn      the function called                                           *)
(*   channels   erlang_b's argument, or the scan's local `channels`        *)
(*   blocking   erlang_b's return value (in the scan: the local `blocking`)*)
(*   result     the Option<u32> returned by the search                     *)
(*   evals      number of erlang_b evaluations made by the scan            *)
(***************************************************************************)
VARIABLES pc, fn, users, average_call_duration, concurrent_calls,
          traffic, blocking_probability, channels_max,
          channels, blocking, result, evals

vars == <<pc, fn, users, average_call_duration, concurrent_calls,
          traffic, blocking_probability, channels_max,
          channels, blocking, result, evals>>

Init ==
    /\ pc = "idle"
    /\ fn = "none"
    /\ users = 0
    /\ average_call_duration = Rat(0, 1)
    /\ concurrent_calls = 0
    /\ traffic = Rat(0, 1)
    /\ blocking_probability = Rat(0, 1)
    /\ channels_max = 0
    /\ channels = 0
    /\ blocking = Rat(0, 1)
    /\ result = None
    /\ evals = 0

\* erlang_b(t, n) called and returned
CallErlangB(t, n) ==
    /\ pc = "idle"
    /\ fn' = "erlang_b"
    /\ traffic' = t
    /\ channels' = n
    /\ blocking' = erlang_b(t, n)
    /\ pc' = "done"
    /\ UNCHANGED <<users, average_call_duration, concurrent_calls,
                   blocking_probability, channels_max, result, evals>>

\* calculate_e1_channels(t, p, max) entered: let mut channels = 1
CallCalculate(t, p, max) ==
    /\ pc = "idle"
    /\ fn' = "calculate_e1_channels"
    /\ traffic' = t
    /\ blocking_probability' = p
    /\ channels_max' = max
    /\ channels' = 1
    /\ pc' = "scan"
    /\ UNCHANGED <<users, average_call_duration, concurrent_calls,
                   blocking, result, evals>>

\* required_e1_channels(u, d, c, p) entered: traffic derived, search entered
CallRequired(u, d, c, p) ==
    /\ pc = "idle"
    /\ fn' = "required_e1_channels"
    /\ users' = u
    /\ average_call_duration' = d
    /\ concurrent_calls' = c
    /\ traffic' = Traffic(u, d, c)
    /\ blocking_probability' = p
    /\ channels_max' = DefaultChannelsMax
    /\ channels' = 1
    /\ pc' = "scan"
    /\ UNCHANGED <<blocking, result, evals>>

\* one test of the while condition and, if it holds, one iteration of the body
ScanStep ==
    /\ pc = "scan"
    /\ IF LoopCond(channels, channels_max)
       THEN /\ blocking' = erlang_b(traffic, channels)
            /\ evals' = evals + 1
            /\ IF Meets(blocking', blocking_probability)
               THEN /\ result' = Some(channels)
                    /\ pc' = "done"
                    /\ UNCHANGED channels
               ELSE /\ channels' = NextCandidate(channels)
                    /\ UNCHANGED <<pc, result>>
       ELSE /\ result' = None
            /\ pc' = "done"
            /\ UNCHANGED <<channels, blocking, evals>>
    /\ UNCHANGED <<fn, users, average_call_duration, concurrent_calls,
                   traffic, blocking_probability, channels_max>>

Next ==
    \/ \E t \in Traffics, n \in 0..(MaxChannels + 1) : CallErlangB(t, n)
    \/ \E t \in Traffics, p \in Probabilities, max \in ChannelBounds :
          CallCalculate(t, p, max)
    \/ \E u \in UserCounts, d \in Durations, c \in ConcurrentCalls,
          p \in RequiredProbabilities : CallRequired(u, d, c, p)
    \/ ScanStep

Spec == Init /\ [][Next]_vars

\* The code is sequential and runs to completion: a started scan keeps stepping.
FairSpec == Spec /\ WF_vars(ScanStep)

(***************************************************************************)
(* Vocabulary of the properties.                                           *)
(***************************************************************************)
Zero == Rat(0, 1)

Positive(t) == RatLt(Zero, t)

InUnitInterval(p) == RatLeq[Zero, p] /\ RatLeq[p, One]

\* a call of fn f has returned
Returned(f) == pc = "done" /\ fn = f

\* the search has returned, entered directly or through required_e1_channels
SearchReturned ==
    pc = "done" /\ fn \in {"calculate_e1_channels", "required_e1_channels"}

\* n channels meet the target of the current call
Satisfies(n) == RatLeq[erlang_b(traffic, n), blocking_probability]

\* the smallest n in 1..max meeting the target (when there is one)
LeastSatisfying(max) ==
    CHOOSE n \in 1..max : Satisfies(n) /\ \A k \in 1..(n - 1) : ~Satisfies(k)

(***************************************************************************)
(* C1.  For traffic > 0, blocking_probability in [0, 1], channels_max >= 1:*)
(* whenever some n in 1..channels_max (channels_max included) meets the    *)
(* target, the search returns Some(m) with m the smallest such n.          *)
(* Fails: the loop tests channels < channels_max, so n = channels_max is   *)
(* never tried.                                                            *)
(***************************************************************************)
C1_SmallestWithinBound ==
    ( /\ Returned("calculate_e1_channels")
      /\ Positive(traffic)
      /\ InUnitInterval(blocking_probability)
      /\ channels_max >= 1
      /\ \E n \in 1..channels_max : Satisfies(n) )
    => result = Some(LeastSatisfying(channels_max))

(***************************************************************************)
(* C2 as stated.  If the search returns Some(n) (traffic > 0, p in [0,1]), *)
(* then erlang_b(t, n) <= p and erlang_b(t, k) > p for every k in 0..n-1.  *)
(* Fails at k = 0 when p = 1: erlang_b(t, 0) = 1 <= p, but the scan starts *)
(* at 1.                                                                   *)
(***************************************************************************)
C2_MinimalFromZero ==
    ( /\ SearchReturned
      /\ Positive(traffic)
      /\ InUnitInterval(blocking_probability)
      /\ result # None )
    => /\ Satisfies(result[1])
       /\ \A k \in 0..(result[1] - 1) : ~Satisfies(k)

(***************************************************************************)
(* C2 amended.  If the search returns Some(n) (traffic > 0, p in [0,1]),   *)
(* then erlang_b(t, n) <= p and erlang_b(t, k) > p for every k with        *)
(* 1 <= k < n.                                                             *)
(***************************************************************************)
C2_MinimalFromOne ==
    ( /\ SearchReturned
      /\ Positive(traffic)
      /\ InUnitInterval(blocking_probability)
      /\ result # None )
    => /\ Satisfies(result[1])
       /\ \A k \in 1..(result[1] - 1) :
             RatLt(blocking_probability, erlang_b(traffic, k))

C2_Witness ==
    /\ Returned("calculate_e1_channels")
    /\ Positive(traffic)
    /\ InUnitInterval(blocking_probability)
    /\ result # None
    /\ result[1] >= 3

(***************************************************************************)
(* C3.  Exhaustion: if no n in 1..channels_max meets the target, the       *)
(* search returns None; the outcome is a value (None or Some(n)), and the  *)
(* counter stays within 1..max(1, channels_max), so `channels += 1` never  *)
(* leaves the range of u32.                                                *)
(***************************************************************************)
C3_Exhaustion ==
    /\ ( Returned("calculate_e1_channels")
         /\ ~ \E n \in 1..channels_max : Satisfies(n) )
       => result = None
    /\ SearchReturned =>
          \/ result = None
          \/ Len(result) = 1 /\ result[1] \in 1..channels_max
    /\ pc = "scan" =>
          /\ channels >= 1
          /\ channels <= channels_max \/ channels = 1

C3_Witness ==
    /\ Returned("calculate_e1_channels")
    /\ channels_max >= 3
    /\ Positive(traffic)
    /\ ~ \E n \in 1..channels_max : Satisfies(n)
    /\ result = None

(***************************************************************************)
(* C4.  Stability under a larger bound: for max1 <= max2, if some n in     *)
(* 1..max1 meets the target, the searches bounded by max1 and by max2      *)
(* return the same result.  (Here max2 is the bound of the call made.)     *)
(* Fails when the smallest such n is max1 itself.                          *)
(***************************************************************************)
C4_StableUnderLargerBound ==
    Returned("calculate_e1_channels") =>
       \A max1 \in 0..channels_max :
          (\E n \in 1..max1 : Satisfies(n)) =>
             calculate_e1_channels(traffic, blocking_probability, max1) = result

(***************************************************************************)
(* C5.  Range: for traffic > 0 and channels >= 0, erlang_b is in [0, 1],   *)
(* equals 1 when channels = 0, and every intermediate inverse_b is >= 1.   *)
(***************************************************************************)
C5_Range ==
    ( Returned("erlang_b") /\ Positive(traffic) )
    => /\ RatLeq[Zero, blocking]
       /\ RatLeq[blocking, One]
       /\ channels = 0 => RatEq(blocking, One)
       /\ \A k \in 0..channels : RatLeq[One, InverseB(traffic, k)]

C5_Witness ==
    /\ Returned("erlang_b")
    /\ Positive(traffic)
    /\ channels >= 3
    /\ RatLt(Zero, blocking)
    /\ RatLt(blocking, One)

(***************************************************************************)
(* C6.  Monotonicity: for traffic > 0 and n >= 0,                          *)
(* erlang_b(traffic, n + 1) <= erlang_b(traffic, n); hence once a          *)
(* candidate of the scan meets the target every larger one does, and the   *)
(* first hit of the scan is the least candidate meeting it.                *)
(***************************************************************************)
C6_Monotone ==
    /\ ( Returned("erlang_b") /\ Positive(traffic) )
       => RatLeq[erlang_b(traffic, channels + 1), blocking]
    /\ ( Returned("calculate_e1_channels") /\ Positive(traffic) /\ result # None )
       => /\ \A m \in result[1]..(channels_max + 1) : Satisfies(m)
          /\ \A k \in 1..(result[1] - 1) : ~Satisfies(k)

C6_Witness ==
    /\ Returned("erlang_b")
    /\ Positive(traffic)
    /\ channels >= 2
    /\ RatLt(erlang_b(traffic, channels + 1), blocking)

(***************************************************************************)
(* C7.  required_e1_channels(users, average_call_duration,                 *)
(* concurrent_calls, p) searches with                                      *)
(* traffic = users * average_call_duration * concurrent_calls / 60 and     *)
(* channels_max = 10000 and returns that search's result; for              *)
(* (100, 3.0, 10, 0.05) the traffic is 50 and the result is Some(n) with   *)
(* erlang_b(50, n) <= 0.05.                                                *)
(***************************************************************************)
C7_RequiredDelegates ==
    fn = "required_e1_channels" =>
       /\ RatEq(RatMul[traffic, Rat(60, 1)],
                RatMul[Rat(users * concurrent_calls, 1), average_call_duration])
       /\ channels_max = 10000
       /\ pc = "done" =>
             result = calculate_e1_channels(traffic, blocking_probability, 10000)
       /\ ( /\ users = 100
            /\ RatEq(average_call_duration, Rat(3, 1))
            /\ concurrent_calls = 10
            /\ RatEq(blocking_probability, Rat(1, 20)) )
          => /\ RatEq(traffic, Rat(50, 1))
             /\ pc = "done" =>
                   /\ result # None
                   /\ RatLeq[erlang_b(Rat(50, 1), result[1]), Rat(1, 20)]

C7_Witness ==
    /\ Returned("required_e1_channels")
    /\ users = 100
    /\ RatEq(average_call_duration, Rat(3, 1))
    /\ concurrent_calls = 10
    /\ RatEq(blocking_probability, Rat(1, 20))
    /\ result # None
    /\ result[1] > 50

(***************************************************************************)
(* C8.  In exact arithmetic the inverse recurrence equals the direct       *)
(* Erlang B formula (t^N / N!) / (sum over k = 0..N of t^k / k!), for      *)
(* every (finite) traffic t > 0 and every channel count N >= 0.            *)
(***************************************************************************)
RECURSIVE Power(_, _)
Power(t, k) == IF k = 0 THEN One ELSE RatMul[t, Power(t, k - 1)]

RECURSIVE Factorial(_)
Factorial(k) == IF k = 0 THEN One ELSE RatMul[Rat(k, 1), Factorial(k - 1)]

Term(t, k) == RatDiv[Power(t, k), Factorial(k)]

RECURSIVE TermSum(_, _)
TermSum(t, k) ==
    IF k = 0 THEN Term(t, 0) ELSE RatAdd[TermSum(t, k - 1), Term(t, k)]

DirectErlangB(t, n) == RatDiv[Term(t, n), TermSum(t, n)]

C8_RecurrenceIsDirectFormula ==
    ( Returned("erlang_b") /\ Positive(traffic) /\ ~IsInf(traffic) )
    => RatEq(blocking, DirectErlangB(traffic, channels))

C8_Witness ==
    /\ Returned("erlang_b")
    /\ Positive(traffic)
    /\ ~IsInf(traffic)
    /\ ~RatEq(traffic, One)
    /\ channels >= 4
    /\ RatEq(blocking, DirectErlangB(traffic, channels))

(***************************************************************************)
(* C9.  The scan terminates; the candidate starts at 1 and only increases  *)
(* by 1; it stops with Some(n) at the first n meeting the target and       *)
(* otherwise with None once n has reached channels_max, after at most      *)
(* channels_max evaluations of erlang_b, the counter never exceeding       *)
(* max(1, channels_max) (no overflow of u32).                              *)
(***************************************************************************)
ScanOutcome ==
    SearchReturned =>
       IF result = None
       THEN ~(channels < channels_max)
            /\ (channels = channels_max \/ (channels = 1 /\ channels_max = 0))
       ELSE /\ result = Some(channels)
            /\ Satisfies(channels)
            /\ \A k \in 1..(channels - 1) : ~Satisfies(k)

====
